---- MODULE Spec2Model ----
(***************************************************************************)
(* Model of the forge test harness (src/src/lib.rs).                       *)
(*                                                                         *)
(* Two state machines share the module:                                    *)
(*   SpecProject - the lazy initialiser of PROJECT, which reads            *)
(*                 remappings.txt line by line on top of the default       *)
(*                 remappings;                                             *)
(*   Spec        - one Runner, its deploy operation and the call           *)
(*                 operation of the Contract handle that deploy returns.   *)
(*                                                                         *)
(* The executor, the backend and the console-log decoder are library code. *)
(* The executor is modelled by every result the match in Contract::call    *)
(* distinguishes and by an arbitrary new VM state of the executor it was   *)
(* given (it is borrowed mutably).                                         *)
(***************************************************************************)
EXTENDS Integers, Sequences, FiniteSets

\* ------------------------------------------------------------- bounds
MaxLines == 2
MaxLineLen == 3
MaxDeploys == 2
MaxCalls == 2
MaxLogs == 2

VARIABLES
    \* PROJECT initialiser
    fileExists,     \* remappings.txt can be read
    file,           \* its lines, each a sequence of characters
    defaults,       \* remappings auto-derived by the paths builder
    remappings,     \* paths.remappings
    idx,            \* lines consumed by the iterator so far
    parsed,         \* the Remapping built by the map closure for each consumed line
    projectState,   \* "uninit", "resolving", "built", "panicked"
    \* Runner / Contract
    fork,           \* runner.fork
    forkConfigured, \* the value runner.fork had before the first deploy
    backends,       \* every backend spawned so far, with its executor's VM state
    handle,         \* the Contract handle that borrows the Runner (&'a mut: at most one)
    issued,         \* executor of every handle deploy has returned, in order
    lastDeploy,     \* what the latest deploy was given and how it ended
    deploys,        \* number of deploy invocations
    aborted,        \* a panic unwound the harness
    pc,             \* position inside Contract::call
    callFunc,       \* func argument of the current / latest call
    result,         \* what execute_test reported for it
    stream,         \* lines the current / latest call printed
    ret,            \* what the current / latest call returned to its caller
    calls           \* number of call invocations

projVars == <<fileExists, file, defaults, remappings, idx, parsed, projectState>>
runVars == <<fork, forkConfigured, backends, handle, issued, lastDeploy, deploys,
             aborted, pc, callFunc, result, stream, ret, calls>>
vars == <<projVars, runVars>>

\* ------------------------------------------------- remapping resolution
Alphabet == {"a", "b", "="}
Lines == UNION {[1..k -> Alphabet] : k \in 0..MaxLineLen}
Files == UNION {[1..n -> Lines] : n \in 0..MaxLines}

Root == <<"/", "r">>

DefaultA == [name |-> <<"a">>, path |-> <<"/", "x">>]
DefaultB == [name |-> <<"b">>, path |-> <<"/", "y">>]
DefaultSets == {<<>>, <<DefaultA>>, <<DefaultA, DefaultB>>}

HasEq(s) == \E i \in 1..Len(s) : s[i] = "="
FirstEq(s) == CHOOSE i \in 1..Len(s) : s[i] = "=" /\ \A j \in 1..(i - 1) : s[j] # "="

\* str::split("="): every "=" separates two segments
RECURSIVE Split(_)
Split(s) ==
    IF ~HasEq(s) THEN <<s>>
    ELSE <<SubSeq(s, 1, FirstEq(s) - 1)>> \o Split(SubSeq(s, FirstEq(s) + 1, Len(s)))

\* PathBuf::join: an absolute argument replaces the base
Join(base, p) ==
    IF p # <<>> /\ p[1] = "/" THEN p ELSE base \o <<"/">> \o p

\* the map closure; defined when the line splits into at least two segments
ParseLine(line) ==
    [name |-> Split(line)[1], path |-> Join(Root, Split(line)[2])]

\* the for_each closure: retain, then push
ApplyMapping(rs, mapping) ==
    Append(SelectSeq(rs, LAMBDA m : m.name # mapping.name), mapping)

ReadRemappings ==
    /\ projectState = "uninit"
    /\ remappings' = defaults
    /\ projectState' = IF fileExists THEN "resolving" ELSE "panicked"
    /\ UNCHANGED <<fileExists, file, defaults, idx, parsed, runVars>>

ResolveLine ==
    /\ projectState = "resolving"
    /\ idx < Len(file)
    /\ LET line == file[idx + 1] IN
        IF Len(Split(line)) < 2
        THEN /\ projectState' = "panicked"
             /\ UNCHANGED <<remappings, idx, parsed>>
        ELSE /\ remappings' = ApplyMapping(remappings, ParseLine(line))
             /\ parsed' = Append(parsed, ParseLine(line))
             /\ idx' = idx + 1
             /\ UNCHANGED projectState
    /\ UNCHANGED <<fileExists, file, defaults, runVars>>

BuildProject ==
    /\ projectState = "resolving"
    /\ idx = Len(file)
    /\ projectState' = "built"
    /\ UNCHANGED <<fileExists, file, defaults, remappings, idx, parsed, runVars>>

\* ------------------------------------------------------ Runner, Contract
NoFork == "none"
ForkOpts == {NoFork, "forkA"}

\* contract name -> functions of its ABI
Registry == {"Counter", "Reverter"}
Abi(name) == IF name = "Counter" THEN {"inc"} ELSE {"fail"}
ContractNames == Registry \cup {"DoesNotExist"}
FuncNames == {"inc", "fail"}

VMStates == {0, 1}
GasValues == {21, 42}
Values == {7}
Reasons == {"nope"}
LogVals == {"c1", "c2", "ev"}
IsConsole(l) == l \in {"c1", "c2"}
LogSeqs == UNION {[1..k -> LogVals] : k \in 0..MaxLogs}

NoHandle == [kind |-> "none"]
NoResult == [kind |-> "none"]
NoRet == [kind |-> "none"]
NoDeploy == [kind |-> "none"]

\* what execute_test can report, as the match in call tells them apart
OkResults ==
    {[kind |-> "Ok", result |-> v, gas_used |-> g, logs |-> l] :
        v \in Values, g \in GasValues, l \in LogSeqs}
ExecutionErrs ==
    {[kind |-> "Execution", reason |-> r, gas_used |-> g, logs |-> l] :
        r \in Reasons, g \in GasValues, l \in LogSeqs}
OtherErrs == {[kind |-> "Other"]}
Results == OkResults \cup ExecutionErrs \cup OtherErrs

\* what ContractRunner::setup hands back
TestSetups ==
    {[address |-> "0xc0de", failed |-> FALSE], [address |-> "0x0", failed |-> TRUE]}

\* Option::take
ForkClone(f) == [taken |-> f, left |-> f]
ForkTake(f) == [taken |-> f, left |-> NoFork]

\* Backend::spawn; state 0 stands for the VM state right after deployment
Spawn(f) ==
    IF f = NoFork THEN [origin |-> "fresh", source |-> NoFork, state |-> 0]
    ELSE [origin |-> "forked", source |-> f, state |-> 0]

\* the executor the new ContractRunner owns: the one just built over the new backend
\* (bs is the list of backends after the spawn)
SharedExecutor(bs) == 1
BoundExecutor(bs) == Len(bs)

\* the part of deploy up to the executor: lookup, then backend acquisition
DeployTakeFirst(name, f, bs) ==
    IF name \notin Registry
    THEN [panic |-> TRUE, fork |-> ForkTake(f).left, backends |-> bs]
    ELSE [panic |-> FALSE, fork |-> ForkTake(f).left,
          backends |-> Append(bs, Spawn(ForkTake(f).taken))]
DeployEffect(name, f, bs) ==
    IF name \notin Registry
    THEN [panic |-> TRUE, fork |-> f, backends |-> bs]
    ELSE [panic |-> FALSE, fork |-> ForkTake(f).left,
          backends |-> Append(bs, Spawn(ForkTake(f).taken))]

Deploy(name, setup) ==
    /\ ~aborted
    /\ pc = "idle"
    /\ deploys < MaxDeploys
    /\ deploys' = deploys + 1
    /\ LET eff == DeployEffect(name, fork, backends) IN
        /\ fork' = eff.fork
        /\ backends' = eff.backends
        /\ aborted' = eff.panic
        /\ IF eff.panic
           THEN /\ handle' = NoHandle
                /\ UNCHANGED issued
                /\ lastDeploy' = [kind |-> "deploy", seq |-> deploys + 1, name |-> name,
                                  forkBefore |-> fork, backendsBefore |-> backends,
                                  setupFailed |-> FALSE, outcome |-> "panic"]
           ELSE /\ handle' = [kind |-> "handle", name |-> name,
                              exec |-> BoundExecutor(eff.backends),
                              address |-> setup.address]
                /\ issued' = Append(issued, BoundExecutor(eff.backends))
                /\ lastDeploy' = [kind |-> "deploy", seq |-> deploys + 1, name |-> name,
                                  forkBefore |-> fork, backendsBefore |-> backends,
                                  setupFailed |-> setup.failed, outcome |-> "handle"]
    /\ UNCHANGED <<forkConfigured, pc, callFunc, result, stream, ret, calls, projVars>>

\* print_logs
LogLine(l) == [kind |-> "log", text |-> l]
RECURSIVE DecodeConsoleLogs(_)
DecodeConsoleLogs(logs) ==
    IF logs = <<>> THEN <<>>
    ELSE (IF IsConsole(Head(logs)) THEN <<LogLine(Head(logs))>> ELSE <<>>)
         \o DecodeConsoleLogs(Tail(logs))

RECURSIVE Reverse(_)
Reverse(s) == IF s = <<>> THEN <<>> ELSE Append(Reverse(Tail(s)), Head(s))

PrintLogsReversed(func, gas_used, logs) ==
    <<[kind |-> "gas", func |-> func, gas |-> gas_used], [kind |-> "start", func |-> func]>>
    \o Reverse(DecodeConsoleLogs(logs))
    \o <<[kind |-> "end", func |-> func]>>
PrintLogs(func, gas_used, logs) ==
    <<[kind |-> "gas", func |-> func, gas |-> gas_used], [kind |-> "start", func |-> func]>>
    \o DecodeConsoleLogs(logs)
    \o <<[kind |-> "end", func |-> func]>>

\* the match on &result
MatchPrintOkOnly(func, res) ==
    IF res.kind = "Ok" THEN PrintLogs(func, res.gas_used, res.logs) ELSE <<>>
MatchPrint(func, res) ==
    IF res.kind = "Ok" THEN PrintLogs(func, res.gas_used, res.logs)
    ELSE IF res.kind = "Execution" THEN PrintLogs(func, res.gas_used, res.logs)
    ELSE <<>>

\* Ok(result?.result)
PropagateUnwrap(res) ==
    IF res.kind = "Ok" THEN [kind |-> "Ok", value |-> res.result]
    ELSE [kind |-> "Panic", message |-> res.kind]
Propagate(res) ==
    IF res.kind = "Ok" THEN [kind |-> "Ok", value |-> res.result]
    ELSE [kind |-> "Err", err |-> res]

\* call, up to the executor's answer
CallExecute(func) ==
    /\ ~aborted
    /\ pc = "idle"
    /\ handle.kind = "handle"
    /\ calls < MaxCalls
    /\ calls' = calls + 1
    /\ callFunc' = func
    /\ stream' = <<>>
    /\ ret' = NoRet
    /\ IF func \notin Abi(handle.name)
       THEN /\ aborted' = TRUE
            /\ result' = NoResult
            /\ UNCHANGED <<pc, backends>>
       ELSE /\ \E res \in Results, s \in VMStates :
                /\ result' = res
                /\ backends' = [backends EXCEPT ![handle.exec].state = s]
            /\ pc' = "executed"
            /\ UNCHANGED aborted
    /\ UNCHANGED <<fork, forkConfigured, handle, issued, lastDeploy, deploys, projVars>>

CallPrint ==
    /\ pc = "executed"
    /\ stream' = stream \o MatchPrint(callFunc, result)
    /\ pc' = "printed"
    /\ UNCHANGED <<fork, forkConfigured, backends, handle, issued, lastDeploy, deploys,
                   aborted, callFunc, result, ret, calls, projVars>>

CallReturn ==
    /\ pc = "printed"
    /\ ret' = Propagate(result)
    /\ pc' = "idle"
    /\ UNCHANGED <<fork, forkConfigured, backends, handle, issued, lastDeploy, deploys,
                   aborted, callFunc, result, stream, calls, projVars>>

\* ------------------------------------------------------- specifications
RunnerIdle ==
    /\ backends = <<>>
    /\ handle = NoHandle
    /\ issued = <<>>
    /\ lastDeploy = NoDeploy
    /\ deploys = 0
    /\ aborted = FALSE
    /\ pc = "idle"
    /\ callFunc = "none"
    /\ result = NoResult
    /\ stream = <<>>
    /\ ret = NoRet
    /\ calls = 0

InitProject ==
    /\ \/ fileExists = TRUE /\ file \in Files
       \/ fileExists = FALSE /\ file = <<>>
    /\ defaults \in DefaultSets
    /\ remappings = <<>>
    /\ idx = 0
    /\ parsed = <<>>
    /\ projectState = "uninit"
    /\ fork = NoFork
    /\ forkConfigured = NoFork
    /\ RunnerIdle

NextProject == ReadRemappings \/ ResolveLine \/ BuildProject

SpecProject == InitProject /\ [][NextProject]_vars

Init ==
    /\ fileExists = TRUE
    /\ file = <<>>
    /\ defaults = <<>>
    /\ remappings = <<>>
    /\ idx = 0
    /\ parsed = <<>>
    /\ projectState = "built"
    /\ fork \in ForkOpts
    /\ forkConfigured = fork
    /\ RunnerIdle

Next ==
    \/ \E name \in ContractNames, setup \in TestSetups : Deploy(name, setup)
    \/ \E func \in FuncNames : CallExecute(func)
    \/ CallPrint
    \/ CallReturn

Spec == Init /\ [][Next]_vars

\* ------------------------------------------------------------- claims
BeforeFirstEq(line) == SubSeq(line, 1, FirstEq(line) - 1)
AfterFirstEq(line) == SubSeq(line, FirstEq(line) + 1, Len(line))
Count(kind) == Cardinality({i \in DOMAIN stream : stream[i].kind = kind})
\* the call printed what it prints, or has already returned
Rendered == pc = "printed" \/ (pc = "idle" /\ ret # NoRet)
Returned == pc = "idle" /\ ret # NoRet
ConsoleIdx(logs) == {i \in DOMAIN logs : IsConsole(logs[i])}
NthConsole(logs, k) ==
    CHOOSE i \in ConsoleIdx(logs) : Cardinality({j \in ConsoleIdx(logs) : j <= i}) = k
\* gas line, start marker, the console logs in emission order, end marker
StreamShape ==
    /\ Len(stream) = Cardinality(ConsoleIdx(result.logs)) + 3
    /\ stream[1] = [kind |-> "gas", func |-> callFunc, gas |-> result.gas_used]
    /\ stream[2] = [kind |-> "start", func |-> callFunc]
    /\ stream[Len(stream)] = [kind |-> "end", func |-> callFunc]
    /\ \A k \in 1..(Len(stream) - 3) :
        stream[k + 2] = [kind |-> "log", text |-> result.logs[NthConsole(result.logs, k)]]

C3_RevertIsRecoverableError ==
    (Returned /\ result.kind = "Execution") =>
        /\ ret.kind = "Err"
        /\ ret.err.kind = "Execution"
        /\ ret.err.reason = result.reason
        /\ ret.err.gas_used = result.gas_used
        /\ ret.err.logs = result.logs

C3_Witness ==
    /\ Returned
    /\ ret.kind = "Err"
    /\ ret.err.kind = "Execution"
    /\ ret.err.reason = "nope"
    /\ ret.err.logs = <<"c1", "ev">>

C5_LastLineWinsPerAlias ==
    projectState = "built" =>
        /\ \A i, j \in DOMAIN remappings :
            remappings[i].name = remappings[j].name => i = j
        /\ \A k \in DOMAIN file :
            LET alias == BeforeFirstEq(file[k])
                last == CHOOSE n \in DOMAIN file :
                    /\ BeforeFirstEq(file[n]) = alias
                    /\ \A m \in DOMAIN file : BeforeFirstEq(file[m]) = alias => m <= n
            IN \E i \in DOMAIN remappings :
                /\ remappings[i].name = alias
                /\ remappings[i].path = Join(Root, AfterFirstEq(file[last]))

\* C6: when the deployment transaction or the setup routine fails, deploy fails with
\* a deployment error and returns no handle.
C6_SetupFailureAbortsDeploy ==
    (lastDeploy.kind = "deploy" /\ lastDeploy.setupFailed) =>
        /\ lastDeploy.outcome = "DeploymentError"
        /\ handle = NoHandle

\* C7: every deploy builds its own executor and backend, so no step taken through one
\* handle (nor a later deploy) changes the VM state behind a handle obtained from an
\* earlier deploy on the same Runner.
C7_HandlesIsolated ==
    [][\A i \in 1..(Len(issued) - 1) :
        /\ issued[i] # issued[Len(issued)]
        /\ backends'[issued[i]] = backends[issued[i]]]_vars

C7_Witness ==
    /\ Len(issued) = 2
    /\ pc = "executed"
    /\ handle.exec = issued[2]
    /\ backends[issued[1]].state = 1
    /\ backends[issued[2]].state = 0

\* C8: over any sequence of deploys the fork source is consumed at most once: the
\* first deploy that acquires a backend takes it, leaving the Runner without one, and
\* spawns a forked backend; every later deploy spawns a fresh backend.
C8_ForkConsumedAtMostOnce ==
    /\ \A i \in DOMAIN backends :
        backends[i].origin = "forked" =>
            i = 1 /\ forkConfigured # NoFork /\ backends[i].source = forkConfigured
    /\ backends # <<>> =>
        /\ fork = NoFork
        /\ forkConfigured # NoFork => backends[1].origin = "forked"
    /\ backends = <<>> => fork = forkConfigured

C8_Witness ==
    /\ Len(backends) = 2
    /\ backends[1].origin = "forked"
    /\ backends[2].origin = "fresh"

C10_SplitOnFirstEq ==
    /\ \A i \in DOMAIN parsed :
        /\ HasEq(file[i])
        /\ parsed[i].name = BeforeFirstEq(file[i])
        /\ parsed[i].path = Join(Root, AfterFirstEq(file[i]))
    /\ (projectState = "panicked" /\ fileExists) => ~HasEq(file[idx + 1])
    /\ projectState = "built" => Len(parsed) = Len(file)

====
